---------------------------- MODULE Spec2Model ----------------------------
(***************************************************************************)
(* Model of MEAutility.py: Electrode, MEA, SquareMEA, GeometricNeuron and  *)
(* get_elcoords.                                                           *)
(*                                                                         *)
(* Conventions of the model                                                *)
(*  - Python None / False / 0 (everything `if x:` treats as false) is the  *)
(*    integer 0 (Falsy).                                                   *)
(*  - sigma is held in tenths, so the default 0.3 is 3.                    *)
(*  - a 3D point or position is a tuple <<x, y, z>> of integers.           *)
(*  - a field value (a real number in the code) is kept exact and          *)
(*    symbolic: [const |-> k, src |-> B] stands for                        *)
(*        k + SUM over <<c, s, d2>> in bag B of c / (2*pi*(s/10)*sqrt(d2)) *)
(*    so two equal records denote equal reals.                             *)
(*  - integer arithmetic is Python 2's (/ on ints is floor division), the  *)
(*    only reading under which range() in SquareMEA.__init__ accepts its   *)
(*    arguments.                                                           *)
(***************************************************************************)
EXTENDS Integers, Sequences, FiniteSets, Bags, TLC

VARIABLES
    el,     \* a standalone Electrode object
    mea,    \* the MEA / SquareMEA object (cls = "none" before construction)
    neuron, \* the GeometricNeuron object (cls = "none" before construction)
    call,   \* the last call: [op |-> name, ...its arguments]
    ret     \* the outcome of the last call: [exc, kind, val]

vars == <<el, mea, neuron, call, ret>>

-----------------------------------------------------------------------------
(* Bounds of the model *)

MaxCoord == 1       \* point / position coordinates range over 0..MaxCoord
MaxCur == 2         \* currents passed in start at a value in 0..MaxCur
MaxSigma == 4       \* sigma passed to set_sigma ranges over 0..MaxSigma (tenths)
MaxFieldChoices == 2 \* max_field passed to set_max_field ranges over 0..MaxFieldChoices
MaxList == 2        \* electrode lists passed in have at most MaxList entries
MaxAmp == 1         \* amp passed to set_random_currents ranges over 0..MaxAmp
MaxBatch == 2       \* a batch passed to compute_field has at most MaxBatch points
MaxDim == 3         \* dim passed to SquareMEA ranges over 1..MaxDim
MaxPitch == 2       \* pitch passed to SquareMEA ranges over 0..MaxPitch (0: omitted)
SomeWidth == 4      \* the width passed to SquareMEA, when one is
MaxLength == 2      \* length passed to GeometricNeuron ranges over 0..MaxLength (0: omitted)
MaxPoints == 3      \* discrete_points passed to GeometricNeuron ranges over 0..MaxPoints (0: omitted)
MaxSortLen == 3     \* sortlists tried have at most MaxSortLen entries, each in -1..MaxSortLen

(* Program constants *)

DefaultSigma == 3           \* 0.3, in tenths
DefaultMaxField == 1000
DefaultPointsPerEdge == 1
DefaultAmp == 10
DefaultPitch == 15
DefaultDim == 10
DefaultLength == 10
DefaultPoints == 100

Falsy == 0

Coords == 0..MaxCoord
Points3 == Coords \X Coords \X Coords
CurVals == 0..MaxCur
SigmaVals == 0..MaxSigma
MaxFieldVals == 0..MaxFieldChoices

-----------------------------------------------------------------------------
(* Outcomes of a call *)

NoCall == [op |-> "none"]

\* no object: before construction, or when construction raised
NoMEA == [cls |-> "none"]
NoNeuron == [cls |-> "none"]

Returned(kind, val) == [exc |-> "", kind |-> kind, val |-> val]
ReturnedNone == Returned("None", 0)
Raised(exc) == [exc |-> exc, kind |-> "raise", val |-> 0]

-----------------------------------------------------------------------------
(* Field values *)

FieldZero == [const |-> 0, src |-> EmptyBag]
FieldConst(k) == [const |-> k, src |-> EmptyBag]
FieldSource(current, sigma, d2) ==
    [const |-> 0, src |-> SetToBag({<<current, sigma, d2>>})]
FieldAdd(a, b) == [const |-> a.const + b.const, src |-> a.src (+) b.src]

\* la.norm(point - position), kept as the squared distance
NormSq(point, position) ==
    (point[1] - position[1]) * (point[1] - position[1])
  + (point[2] - position[2]) * (point[2] - position[2])
  + (point[3] - position[3]) * (point[3] - position[3])

-----------------------------------------------------------------------------
(* class Electrode *)

Electrode(position, current, sigma, points_per_edge) ==
    [position |-> position,
     sigma |-> IF sigma # Falsy THEN sigma ELSE DefaultSigma,
     max_field |-> DefaultMaxField,
     current |-> IF current # Falsy THEN current ELSE 0,
     points_per_edge |-> IF points_per_edge # Falsy THEN points_per_edge
                         ELSE DefaultPointsPerEdge]

set_current(e, current) == [e EXCEPT !.current = current]

set_sigma(e, sigma) == [e EXCEPT !.sigma = sigma]

set_max_field(e, max_field) == [e EXCEPT !.max_field = max_field]

\* all(point != self.position): the test with all() in place of any()
AnyDiffers_all(point, position) == \A k \in 1..3 : point[k] # position[k]

\* any(point != self.position): some coordinate differs
AnyDiffers(point, position) == \E k \in 1..3 : point[k] # position[k]

field_contribution(e, point) ==
    IF e.points_per_edge = 1
    THEN IF AnyDiffers(point, e.position)
         THEN Returned("scalar", FieldSource(e.current, e.sigma, NormSq(point, e.position)))
         ELSE Returned("scalar", FieldConst(e.max_field))
    ELSE ReturnedNone

-----------------------------------------------------------------------------
(* Python helpers *)

\* len(range(start, stop, step)) for step > 0
RangeLen(start, stop, step) ==
    IF stop <= start THEN 0 ELSE ((stop - start) + step - 1) \div step

\* range(start, stop, step) for step > 0, as a sequence
PyRange(start, stop, step) ==
    [i \in 1..RangeLen(start, stop, step) |-> start + (i - 1) * step]

\* seq[::-1]
Reversed(seq) == [i \in 1..Len(seq) |-> seq[Len(seq) + 1 - i]]

\* np.zeros(n)
Zeros(n) == [i \in 1..n |-> 0]

-----------------------------------------------------------------------------
(* class MEA                                                               *)
(*                                                                         *)
(* An object is a record:                                                  *)
(*   cls              "MEA" or "SquareMEA"                                 *)
(*   has_electrodes   whether the attribute self.electrodes exists         *)
(*   electrodes_type  what self.electrodes is: "list" (a list or array of  *)
(*                    Electrode), "Electrode" (one bare Electrode) or      *)
(*                    "other" (any other value)                            *)
(*   electrodes       the Electrodes held, in order                        *)
(*   number_electrode                                                      *)
(*   dim, pitch, x_plane   (SquareMEA only; 0 in a plain MEA)              *)
(***************************************************************************)

Outcome(self, r) == [mea |-> self, ret |-> r]

\* MEA.__init__(self, electrodes=None) applied to a fresh object of class cls.
\* arg = [type |-> "None" | "list" | "ndarray" | "Electrode" | "other", items |-> seq]
\* bool(ndarray) raises ValueError when the array has more than one element.
MEA_init(cls, arg) ==
    LET fresh == [cls |-> cls, has_electrodes |-> FALSE, electrodes_type |-> "other",
                  electrodes |-> << >>, number_electrode |-> 0,
                  dim |-> 0, pitch |-> 0, x_plane |-> 0]
        truthy == CASE arg.type = "None" -> FALSE
                    [] arg.type \in {"list", "ndarray"} -> Len(arg.items) > 0
                    [] OTHER -> TRUE
    IN  IF arg.type = "ndarray" /\ Len(arg.items) > 1
        THEN Outcome(NoMEA, Raised("ValueError"))
        ELSE IF truthy
        THEN IF arg.type \in {"ndarray", "list"}
             THEN Outcome([fresh EXCEPT !.has_electrodes = TRUE,
                                        !.electrodes_type = "list",
                                        !.electrodes = arg.items,
                                        !.number_electrode = Len(arg.items)],
                          ReturnedNone)
             ELSE IF arg.type = "Electrode"
             THEN Outcome([fresh EXCEPT !.has_electrodes = TRUE,
                                        !.electrodes_type = "Electrode",
                                        !.electrodes = arg.items,
                                        !.number_electrode = 1],
                          ReturnedNone)
             ELSE \* print("Wrong arguments")
                  Outcome([fresh EXCEPT !.has_electrodes = TRUE,
                                        !.electrodes_type = "other",
                                        !.electrodes = << >>,
                                        !.number_electrode = 0],
                          ReturnedNone)
        ELSE Outcome(fresh, ReturnedNone)

\* MEA.set_electrodes(self, electrodes): the attribute is assigned before
\* len() is evaluated; len() of a bare Electrode raises.
set_electrodes(self, arg) ==
    LET stored == [self EXCEPT !.has_electrodes = TRUE,
                               !.electrodes_type =
                                   IF arg.type \in {"list", "ndarray"} THEN "list"
                                   ELSE IF arg.type = "Electrode" THEN "Electrode"
                                   ELSE "other",
                               !.electrodes = arg.items]
    IN  IF arg.type \in {"list", "ndarray"}
        THEN Outcome([stored EXCEPT !.number_electrode = Len(arg.items)], ReturnedNone)
        ELSE Outcome(stored, Raised(IF arg.type = "Electrode" THEN "AttributeError"
                                    ELSE "TypeError"))

\* What evaluating self.electrodes[ii] raises ("" when it yields an Electrode);
\* ii counts from 0 as in the code.
SubscriptError(self, ii) ==
    IF ~self.has_electrodes THEN "AttributeError"
    ELSE IF self.electrodes_type = "Electrode" THEN "AttributeError"
    ELSE IF self.electrodes_type = "other" THEN "TypeError"
    ELSE IF ii >= Len(self.electrodes) THEN "IndexError"
    ELSE ""

\* Where a loop `for ii in range(n)` stops: at the first ii whose body raises
\* (errs[ii] # "", errs being the body's error at each ii), or at n when no
\* body raises.
LoopStop(n, errs) ==
    LET bad == {ii \in 0..(n - 1) : errs[ii] # ""}
    IN  IF bad = {} THEN n ELSE CHOOSE m \in bad : \A x \in bad : m <= x

\* for ii in range(self.number_electrode):
\*     self.electrodes[ii].set_current(currents_array[ii])
\* self.electrodes[ii] is evaluated before currents_array[ii]; the electrodes
\* before the first failing index keep their new current.
set_currents(self, currents_array) ==
    LET n == self.number_electrode
        Err(ii) == IF SubscriptError(self, ii) # "" THEN SubscriptError(self, ii)
                   ELSE IF ii >= Len(currents_array) THEN "IndexError"
                   ELSE ""
        stop == LoopStop(n, [ii \in 0..(n - 1) |-> Err(ii)])
        after == [self EXCEPT !.electrodes =
                     [i \in 1..Len(self.electrodes) |->
                         IF i <= stop THEN set_current(self.electrodes[i], currents_array[i])
                         ELSE self.electrodes[i]]]
    IN  Outcome(after, IF stop = n THEN ReturnedNone ELSE Raised(Err(stop)))

\* currents = np.random.randn(n) * (amp if amp else 10); draws stands for randn(n)
set_random_currents(self, amp, draws) ==
    LET scale == IF amp # Falsy THEN amp ELSE DefaultAmp
        currents == [i \in 1..self.number_electrode |-> draws[i] * scale]
    IN  set_currents(self, currents)

reset_currents(self) == set_currents(self, Zeros(self.number_electrode))

\* for ii in range(n): currents[ii] = self.electrodes[ii].current
get_currents(self) ==
    LET n == self.number_electrode
        Err(ii) == SubscriptError(self, ii)
        stop == LoopStop(n, [ii \in 0..(n - 1) |-> Err(ii)])
    IN  IF stop = n
        THEN Returned("vector", [i \in 1..n |-> self.electrodes[i].current])
        ELSE Raised(Err(stop))

\* for ii in range(n): pos[ii, :] = self.electrodes[ii].position
get_electrode_positions(self) ==
    LET n == self.number_electrode
        Err(ii) == SubscriptError(self, ii)
        stop == LoopStop(n, [ii \in 0..(n - 1) |-> Err(ii)])
    IN  IF stop = n
        THEN Returned("positions", [i \in 1..n |-> self.electrodes[i].position])
        ELSE Raised(Err(stop))

\* terms[lo] + ... + terms[hi], split in halves to keep the evaluation shallow
RECURSIVE FieldSum(_, _, _)
FieldSum(terms, lo, hi) ==
    IF lo > hi THEN FieldZero
    ELSE IF lo = hi THEN terms[lo]
    ELSE LET mid == (lo + hi) \div 2
         IN  FieldAdd(FieldSum(terms, lo, mid), FieldSum(terms, mid + 1, hi))

\* vp = 0; for ii in range(n): vp += self.electrodes[ii].field_contribution(point)
\* (adding None, which field_contribution returns when points_per_edge # 1, raises)
field_at(self, point) ==
    LET n == self.number_electrode
        Err(ii) == IF SubscriptError(self, ii) # "" THEN SubscriptError(self, ii)
                   ELSE IF field_contribution(self.electrodes[ii + 1], point).kind # "scalar"
                   THEN "TypeError"
                   ELSE ""
        stop == LoopStop(n, [ii \in 0..(n - 1) |-> Err(ii)])
    IN  IF stop = n
        THEN Returned("scalar",
                 FieldSum([i \in 1..n |-> field_contribution(self.electrodes[i], point).val], 1, n))
        ELSE Raised(Err(stop))

\* vp = np.zeros(N); for pp in range(0, len(vp)): ...; vp[pp] = pf
field_batch(self, points) ==
    LET N == Len(points)
        Err(pp) == field_at(self, points[pp + 1]).exc
        stop == LoopStop(N, [ii \in 0..(N - 1) |-> Err(ii)])
    IN  IF stop = N
        THEN Returned("vector", [k \in 1..N |-> field_at(self, points[k]).val])
        ELSE Raised(Err(stop))

\* MEA.compute_field(self, points).
\* points = [ndim |-> n, data |-> d]: for ndim = 1, d is the point (a sequence of
\* numbers); for ndim = 2, d is a sequence of rows and cols is shape[1].
compute_field(self, points) ==
    IF points.ndim = 1
    THEN IF Len(points.data) # 3
         THEN ReturnedNone      \* print("Error: expected 3d point"); return
         ELSE field_at(self, points.data)
    ELSE IF points.ndim = 2
    THEN IF points.cols # 3
         THEN ReturnedNone      \* print("Error: expected 3d points"); return
         ELSE field_batch(self, points.data)
    ELSE Returned("list", << >>)    \* vp = [] is returned untouched

-----------------------------------------------------------------------------
(* class SquareMEA(MEA) *)

\* sources_pos_y of SquareMEA.__init__, with Python 2 integer division:
\* -dim / 2 parses as (-dim) / 2, and / floors.
sources_pos_y(dim, pitch) ==
    IF dim % 2 = 0
    THEN PyRange(((-dim) \div 2) * pitch + pitch \div 2, (dim \div 2) * pitch, pitch)
    ELSE PyRange(-(dim \div 2) * pitch, (dim \div 2) * pitch + pitch, pitch)

\* the two loops nested the other way round (row-major)
SquareSources_rowmajor(x_plane, ys, zs) ==
    [k \in 1..(Len(ys) * Len(zs)) |->
        Electrode(<<x_plane, ys[((k - 1) % Len(ys)) + 1], zs[((k - 1) \div Len(ys)) + 1]>>,
                  Falsy, Falsy, Falsy)]

\* for ii in sources_pos_y: for jj in sources_pos_z:
\*     sources.append(Electrode([self.x_plane, ii, jj]))
SquareSources(x_plane, ys, zs) ==
    [k \in 1..(Len(ys) * Len(zs)) |->
        Electrode(<<x_plane, ys[((k - 1) \div Len(zs)) + 1], zs[((k - 1) % Len(zs)) + 1]>>,
                  Falsy, Falsy, Falsy)]

\* SquareMEA.__init__(self, dim=None, pitch=None, width=None, x_plane=None);
\* an omitted argument is Falsy. range() with step 0 raises ValueError.
SquareMEA_init(dim, pitch, width, x_plane) ==
    LET base == MEA_init("SquareMEA", [type |-> "None", items |-> << >>]).mea
        d == IF width # Falsy
             THEN IF pitch # Falsy THEN width \div pitch ELSE dim
             ELSE IF dim # Falsy THEN dim ELSE DefaultDim
        p == IF width # Falsy
             THEN IF pitch # Falsy THEN pitch ELSE width \div d
             ELSE IF pitch # Falsy THEN pitch ELSE DefaultPitch
        x == IF x_plane # Falsy THEN x_plane ELSE 0
        ys == sources_pos_y(d, p)
        zs == Reversed(ys)
        sized == [base EXCEPT !.dim = d, !.pitch = p, !.x_plane = x]
    IN  IF width # Falsy /\ pitch = Falsy /\ dim = Falsy
        THEN Outcome(NoMEA, Raised("AttributeError"))
        ELSE IF p = 0
        THEN Outcome(NoMEA, Raised("ValueError"))
        ELSE set_electrodes(sized, [type |-> "list", items |-> SquareSources(x, ys, zs)])

\* SquareMEA.get_electrodes_number
get_electrodes_number(self) == Returned("int", self.dim * self.dim)

\* The flat index (from 0) the square methods use for grid cell [zz][yy]
FlatIndex(dim, zz, yy) == dim * yy + zz

\* The k-th cell (k from 0) the double loop visits:
\* for yy in range(dim): for zz in range(dim)
Cell(dim, k) == [yy |-> k \div dim, zz |-> k % dim]

\* SquareMEA.get_current_matrix:
\*     current_matrix[zz, yy] = MEA.get_currents(self)[dim*yy + zz]
get_current_matrix(self) ==
    LET dim == self.dim
        cur == get_currents(self)
        Idx(k) == FlatIndex(dim, Cell(dim, k).zz, Cell(dim, k).yy)
        Err(k) == IF cur.exc # "" THEN cur.exc
                  ELSE IF Idx(k) >= Len(cur.val) THEN "IndexError"
                  ELSE ""
        stop == LoopStop(dim * dim, [ii \in 0..(dim * dim - 1) |-> Err(ii)])
    IN  IF stop = dim * dim
        THEN Returned("matrix",
                 [r \in 1..dim |-> [c \in 1..dim |-> cur.val[FlatIndex(dim, r - 1, c - 1) + 1]]])
        ELSE Raised(Err(stop))

\* SquareMEA.get_electrode_matrix:
\*     electrode_matrix[zz][yy] = self.electrodes[dim*yy + zz]
get_electrode_matrix(self) ==
    LET dim == self.dim
        Idx(k) == FlatIndex(dim, Cell(dim, k).zz, Cell(dim, k).yy)
        Err(k) == SubscriptError(self, Idx(k))
        stop == LoopStop(dim * dim, [ii \in 0..(dim * dim - 1) |-> Err(ii)])
    IN  IF stop = dim * dim
        THEN Returned("electrode_matrix",
                 [r \in 1..dim |-> [c \in 1..dim |->
                     self.electrodes[FlatIndex(dim, r - 1, c - 1) + 1]]])
        ELSE Raised(Err(stop))

\* SquareMEA.__getitem__(self, index), index >= 0
getitem(self, index) ==
    IF index < self.dim
    THEN LET m == get_electrode_matrix(self)
         IN  IF m.exc # "" THEN m ELSE Returned("electrode_row", m.val[index + 1])
    ELSE ReturnedNone       \* print("Index out of bound")

\* SquareMEA.set_current_matrix(self, currents); currents is a 2-D array
\* [rows |-> R, cols |-> C, data |-> sequence of rows].
\*     current_array = np.zeros(self.number_electrode)
\*     current_array[dim*yy + zz] = currents[zz, yy]   (right side evaluated first)
\*     MEA.set_currents(self, currents_array=current_array)
set_current_matrix(self, currents) ==
    LET dim == self.dim
        n == self.number_electrode
        Idx(k) == FlatIndex(dim, Cell(dim, k).zz, Cell(dim, k).yy)
        Err(k) == IF Cell(dim, k).zz >= currents.rows \/ Cell(dim, k).yy >= currents.cols
                  THEN "IndexError"
                  ELSE IF Idx(k) >= n THEN "IndexError"
                  ELSE ""
        stop == LoopStop(dim * dim, [ii \in 0..(dim * dim - 1) |-> Err(ii)])
        Writers(j) == {k \in 0..(dim * dim - 1) : Idx(k) = j}
        Last(j) == CHOOSE k \in Writers(j) : \A x \in Writers(j) : x <= k
        current_array ==
            [i \in 1..n |->
                IF Writers(i - 1) = {} THEN 0
                ELSE currents.data[Cell(dim, Last(i - 1)).zz + 1][Cell(dim, Last(i - 1)).yy + 1]]
    IN  IF stop = dim * dim
        THEN set_currents(self, current_array)
        ELSE Outcome(self, Raised(Err(stop)))

-----------------------------------------------------------------------------
(* class GeometricNeuron                                                   *)
(*                                                                         *)
(* An object is a record:                                                  *)
(*   cls            "GeometricNeuron"                                      *)
(*   soma_pos       <<x, y, z>>                                            *)
(*   has_align_dir, has_length, has_points                                 *)
(*                  whether the attribute of that name exists              *)
(*   align_dir      [vec |-> d, normsq |-> q]: the vector d / sqrt(q)      *)
(*   length, points                                                        *)
(* A real number the methods compute is an exact fraction <<n, d>> in      *)
(* lowest terms with d > 0; the point soma_pos + st * align_dir is         *)
(* [base |-> soma_pos, st |-> <<n, d>>, dir |-> align_dir].                *)
(***************************************************************************)

RECURSIVE Gcd(_, _)
Gcd(a, b) == IF b = 0 THEN a ELSE Gcd(b, a % b)

Abs(a) == IF a < 0 THEN 0 - a ELSE a

\* the fraction n / d (d # 0) in lowest terms
Frac(n, d) ==
    LET g == Gcd(Abs(n), Abs(d))
        sgn == IF d < 0 THEN 0 - 1 ELSE 1
    IN  <<sgn * (n \div g), sgn * (d \div g)>>

\* align_dir / la.norm(align_dir)
Normalized(align_dir) == [vec |-> align_dir, normsq |-> NormSq(align_dir, <<0, 0, 0>>)]

\* soma_pos + st * align_dir
AxonPoint(soma_pos, st, align_dir) == [base |-> soma_pos, st |-> st, dir |-> align_dir]

\* np.linspace(0, stop, num=num) for num >= 0: nothing for num = 0, the start
\* alone for num = 1, else arange(num) * (stop / (num - 1)) with the last set
\* to stop
Linspace(stop, num) ==
    [k \in 1..num |-> IF num = 1 THEN Frac(0, 1)
                      ELSE IF k = num THEN Frac(stop, 1)
                      ELSE Frac((k - 1) * stop, num - 1)]

\* GeometricNeuron.__init__(self, soma_pos, align_dir, length=False,
\* discrete_points=False). With align_dir = [0, 0, 0] the constructor prints
\* and returns: the object exists with soma_pos only.
GeometricNeuron(soma_pos, align_dir, length, discrete_points) ==
    LET bare == [cls |-> "GeometricNeuron", soma_pos |-> soma_pos,
                 has_align_dir |-> FALSE, align_dir |-> Normalized(<<0, 0, 0>>),
                 has_length |-> FALSE, length |-> 0,
                 has_points |-> FALSE, points |-> 0]
    IN  IF AnyDiffers(align_dir, <<0, 0, 0>>)
        THEN [bare EXCEPT !.has_align_dir = TRUE,
                          !.align_dir = Normalized(align_dir),
                          !.has_length = TRUE,
                          !.length = IF length # Falsy THEN length ELSE DefaultLength,
                          !.has_points = TRUE,
                          !.points = IF discrete_points # Falsy THEN discrete_points
                                     ELSE DefaultPoints]
        ELSE bare

\* GeometricNeuron.get_axon_points
get_axon_points(self) ==
    IF ~self.has_length \/ ~self.has_points \/ ~self.has_align_dir
    THEN Raised("AttributeError")
    ELSE LET steps == Linspace(self.length, self.points)
         IN  Returned("points",
                 [k \in 1..Len(steps) |-> AxonPoint(self.soma_pos, steps[k], self.align_dir)])

\* GeometricNeuron.get_axon_end
get_axon_end(self) ==
    IF ~self.has_length \/ ~self.has_align_dir
    THEN Raised("AttributeError")
    ELSE Returned("point", AxonPoint(self.soma_pos, Frac(self.length, 1), self.align_dir))

-----------------------------------------------------------------------------
(* get_elcoords(xoffset, dim, pitch, electrode_name, sortlist)             *)
(*                                                                         *)
(*  - electrode_name is the set of the tags its lower-cased text contains  *)
(*    ("neuronexus-32", "cut", "neuropixels", "v1", "v2").                 *)
(*  - dim and pitch are sequences; Python's dim[0] is dim[1] here.         *)
(*  - sortlist is [is_none |-> TRUE, items |-> << >>] for None and         *)
(*    [is_none |-> FALSE, items |-> the list] otherwise.                   *)
(*  - the coordinates computed are multiples of 1/4 (pitch / 2.,           *)
(*    pitch / 4., (dim - 1) / 2.); a position holds them multiplied by 4.  *)
(***************************************************************************)

\* tag in electrode_name.lower()
NameHas(electrode_name, tag) == tag \in electrode_name

\* coldims = [10, 12, 10]; [10, 10, 10] when the name has 'cut'
coldims(electrode_name) ==
    IF NameHas(electrode_name, "cut") THEN <<10, 10, 10>> ELSE <<10, 12, 10>>

RECURSIVE SeqSum(_)
\* sum(seq)
SeqSum(seq) == IF seq = << >> THEN 0 ELSE Head(seq) + SeqSum(Tail(seq))

\* sum(seq) in place of np.prod(seq)
SeqProd_sum(seq) == SeqSum(seq)

RECURSIVE SeqProd(_)
\* np.prod(seq)
SeqProd(seq) == IF seq = << >> THEN 1 ELSE Head(seq) * SeqProd(Tail(seq))

\* [v] * n
Repeat(v, n) == [i \in 1..n |-> v]

\* np.arange(start, stop, step) for step > 0, all three given multiplied by 4
Arange4(start4, stop4, step4) == PyRange(start4, stop4, step4)

\* The x, y, z of the neuronexus-32 branch (flat, before the reshape):
\*   zshift = -pitch[1] * (coldims[1] - 1) / 2.
\*   x = [0.] * sum(coldims)
\*   y = [-pitch[0]] * coldims[0] ++ [0.] * coldims[1] ++ [pitch[0]] * coldims[2]
\*   z = (arange(pitch[1]/2., coldims[0]*pitch[1], pitch[1]) ++
\*        arange(0., coldims[1]*pitch[1], pitch[1]) ++
\*        arange(pitch[1]/2., coldims[2]*pitch[1], pitch[1])) + zshift
NeuronexusAxes(pitch, cd) ==
    LET p0 == pitch[1]
        p1 == pitch[2]
        zshift4 == 0 - 2 * p1 * (cd[2] - 1)
        zs == Arange4(2 * p1, 4 * cd[1] * p1, 4 * p1)
              \o Arange4(0, 4 * cd[2] * p1, 4 * p1)
              \o Arange4(2 * p1, 4 * cd[3] * p1, 4 * p1)
    IN  [x |-> Repeat(0, SeqSum(cd)),
         y |-> Repeat(0 - 4 * p0, cd[1]) \o Repeat(0, cd[2]) \o Repeat(4 * p0, cd[3]),
         z |-> [k \in 1..Len(zs) |-> zs[k] + zshift4]]

\* One axis of np.mgrid[..., -(d - 1) / 2. : d / 2. : 1, ...], times 4
MgridAxis4(d) == Arange4(0 - 2 * (d - 1), 2 * d, 4)

\* The x, y, z of the grid branches, flattened in C order (index j * n1 + k):
\*   x, y, z = np.mgrid[0:1, -(dim[0]-1)/2.:dim[0]/2.:1, -(dim[1]-1)/2.:dim[1]/2.:1]
\*   x = x + xoffset;  y = y * pitch[0] (+ yoffset along the last axis);
\*   z = z * pitch[1]
\* stagger is the yoffset of 'v1' ([pitch[0]/4., -pitch[0]/4.] repeated), or
\* zeros.
GridAxes(xoffset, dim, pitch, stagger) ==
    LET ys == MgridAxis4(dim[1])
        zs == MgridAxis4(dim[2])
        n0 == Len(ys)
        n1 == Len(zs)
        J(idx) == ((idx - 1) \div n1) + 1
        K(idx) == ((idx - 1) % n1) + 1
    IN  [x |-> Repeat(4 * xoffset, n0 * n1),
         y |-> [idx \in 1..(n0 * n1) |-> ys[J(idx)] * pitch[1] + stagger[K(idx)]],
         z |-> [idx \in 1..(n0 * n1) |-> zs[K(idx)] * pitch[2]]]

\* yoffset = np.array([pitch[0]/4., -pitch[0]/4.] * (dim[1]/2)), times 4
\* (dim[1]/2 is an integer division)
Yoffset4(dim, pitch) ==
    [k \in 1..(2 * (dim[2] \div 2)) |-> IF k % 2 = 1 THEN pitch[1] ELSE 0 - pitch[1]]

\* el_pos = np.concatenate((reshape(x), reshape(y), reshape(z)), axis=1)
Concatenate3(axes) ==
    IF Len(axes.x) = Len(axes.y) /\ Len(axes.y) = Len(axes.z)
    THEN Returned("positions", [k \in 1..Len(axes.x) |-> <<axes.x[k], axes.y[k], axes.z[k]>>])
    ELSE Raised("ValueError")

\* get_elcoords up to el_pos: the generated positions, or the exception raised.
\* np.add(y * pitch[0], yoffset) broadcasts yoffset along the last axis and
\* raises ValueError unless its length is dim[1] (an odd dim[1] > 1), and with
\* dim[1] = 1 gives an empty y, which the concatenation rejects.
el_pos(xoffset, dim, pitch, electrode_name) ==
    IF NameHas(electrode_name, "neuronexus-32")
    THEN IF SeqSum(coldims(electrode_name)) # SeqProd(dim)
         THEN Raised("ValueError")
         ELSE Concatenate3(NeuronexusAxes(pitch, coldims(electrode_name)))
    ELSE IF Len(dim) < 2
    THEN Raised("IndexError")
    ELSE IF NameHas(electrode_name, "neuropixels")
    THEN IF NameHas(electrode_name, "v1")
         THEN IF Len(Yoffset4(dim, pitch)) = dim[2]
              THEN Concatenate3(GridAxes(xoffset, dim, pitch, Yoffset4(dim, pitch)))
              ELSE Raised("ValueError")
         ELSE IF NameHas(electrode_name, "v2")
         THEN Concatenate3(GridAxes(xoffset, dim, pitch, Repeat(0, dim[2])))
         ELSE Raised("NotImplementedError")
    ELSE Concatenate3(GridAxes(xoffset, dim, pitch, Repeat(0, dim[2])))

\* The index a[si] addresses in a sequence of n items (a negative si counts
\* from the end)
PyIndex(si, n) == IF si < 0 THEN si + n ELSE si

\* the permutation applied the other way round: R[i] = el_pos[sortlist[i]]
sort_positions_gather(positions, items) ==
    LET n == Len(positions)
    IN  IF \E i \in 1..Len(items) : i > n \/ items[i] >= n \/ items[i] < 0 - n
        THEN Raised("IndexError")
        ELSE Returned("positions",
                 [t \in 1..n |-> IF t <= Len(items)
                                 THEN positions[PyIndex(items[t], n) + 1]
                                 ELSE positions[t]])

\* el_pos_sorted = copy.deepcopy(el_pos)
\* for i, si in enumerate(sortlist): el_pos_sorted[si] = el_pos[i]
\* el_pos[i] raises IndexError when i >= n, el_pos_sorted[si] when si is
\* outside -n..n-1; a later assignment to the same index overwrites an earlier
\* one, an index never assigned keeps the copied position.
sort_positions(positions, items) ==
    LET n == Len(positions)
        errs == [i \in 0..(Len(items) - 1) |->
                    IF i >= n \/ items[i + 1] >= n \/ items[i + 1] < 0 - n
                    THEN "IndexError" ELSE ""]
        stop == LoopStop(Len(items), errs)
        Writers(t) == {i \in 1..Len(items) : PyIndex(items[i], n) = t - 1}
        Last(I) == CHOOSE i \in I : \A j \in I : j <= i
    IN  IF stop < Len(items)
        THEN Raised("IndexError")
        ELSE Returned("positions",
                 [t \in 1..n |-> IF Writers(t) = {} THEN positions[t]
                                 ELSE positions[Last(Writers(t))]])

\* get_elcoords
get_elcoords(xoffset, dim, pitch, electrode_name, sortlist) ==
    LET generated == el_pos(xoffset, dim, pitch, electrode_name)
    IN  IF generated.exc # "" THEN generated
        ELSE IF sortlist.is_none THEN generated
        ELSE sort_positions(generated.val, sortlist.items)

-----------------------------------------------------------------------------
(* Electrode: state machine over one standalone Electrode *)

InitElectrode ==
    /\ el \in {Electrode(p, c, s, Falsy) : p \in Points3, c \in CurVals, s \in {0, 5}}
    /\ mea = NoMEA
    /\ neuron = NoNeuron
    /\ call = NoCall
    /\ ret = ReturnedNone

ElSetCurrent ==
    \E c \in CurVals :
        /\ el' = set_current(el, c)
        /\ call' = [op |-> "Electrode.set_current", current |-> c]
        /\ ret' = ReturnedNone
        /\ UNCHANGED <<mea, neuron>>

ElSetSigma ==
    \E s \in SigmaVals :
        /\ el' = set_sigma(el, s)
        /\ call' = [op |-> "Electrode.set_sigma", sigma |-> s]
        /\ ret' = ReturnedNone
        /\ UNCHANGED <<mea, neuron>>

ElSetMaxField ==
    \E m \in MaxFieldVals :
        /\ el' = set_max_field(el, m)
        /\ call' = [op |-> "Electrode.set_max_field", max_field |-> m]
        /\ ret' = ReturnedNone
        /\ UNCHANGED <<mea, neuron>>

ElFieldContribution ==
    \E p \in Points3 :
        /\ call' = [op |-> "Electrode.field_contribution", point |-> p]
        /\ ret' = field_contribution(el, p)
        /\ UNCHANGED <<el, mea, neuron>>

NextElectrode ==
    \/ ElSetCurrent
    \/ ElSetSigma
    \/ ElSetMaxField
    \/ ElFieldContribution

SpecElectrode == InitElectrode /\ [][NextElectrode]_vars

-----------------------------------------------------------------------------
(* Inputs of the array state machines *)

SeqsUpTo(S, n) == UNION {[1..k -> S] : k \in 0..n}

ElectrodePool ==
    {Electrode(<<0, 0, 0>>, Falsy, Falsy, Falsy), Electrode(<<0, 1, 0>>, 1, Falsy, Falsy)}

ElectrodeLists == SeqsUpTo(ElectrodePool, MaxList)

\* arguments of MEA(...)
MEAArgs ==
    {[type |-> "None", items |-> << >>], [type |-> "other", items |-> << >>]}
    \cup {[type |-> t, items |-> l] : t \in {"list", "ndarray"}, l \in ElectrodeLists}
    \cup {[type |-> "Electrode", items |-> <<e>>] : e \in ElectrodePool}

\* arguments of set_electrodes: lists of Electrode
SetElectrodesArgs == {[type |-> "list", items |-> l] : l \in ElectrodeLists}

\* a vector of n values a, a+b, a+2b, ...
Ramp(n, a, b) == [i \in 1..n |-> a + b * (i - 1)]

\* lengths tried against an array of count electrodes
Lens(count) == {n \in {0, count - 1, count, count + 1} : n >= 0}

\* arguments of set_currents
CurrentVectors(count) == {Ramp(n, a, 1) : n \in Lens(count), a \in 1..MaxCur}

AmpVals == 0..MaxAmp

\* samples np.random.randn may return
RandomDraws(count) == {Ramp(count, a, 1) : a \in -1..0}

\* a grid of R rows and C columns with entry k + a*row + b*col (rows, cols from 0)
Grid(R, C, k, a, b) ==
    [rows |-> R, cols |-> C,
     data |-> [r \in 1..R |-> [c \in 1..C |-> k + a * (r - 1) + b * (c - 1)]]]

GridShapes(dim) ==
    {sh \in {<<dim, dim>>, <<dim - 1, dim>>, <<dim, dim - 1>>, <<dim, dim + 1>>,
             <<dim + 1, dim + 1>>} : sh[1] >= 0 /\ sh[2] >= 0}

\* arguments of set_current_matrix
CurrentGrids(dim) == {Grid(sh[1], sh[2], k, 1, 3) : sh \in GridShapes(dim), k \in 1..MaxCur}

BatchPoints == {<<0, 0, 0>>, <<0, 0, 1>>}

\* arguments of compute_field: arrays of 0, 1, 2 and 3 dimensions
FieldArgs ==
    {[ndim |-> 1, data |-> p, cols |-> 0] :
        p \in BatchPoints \cup {<<1, 1, 0>>, << >>, <<0, 0>>, <<0, 0, 1, 1>>}}
    \cup {[ndim |-> 2, data |-> b, cols |-> 3] : b \in SeqsUpTo(BatchPoints, MaxBatch)}
    \cup {[ndim |-> 2, data |-> <<<<0, 0>>>>, cols |-> 2],
          [ndim |-> 2, data |-> <<<<0, 0, 1, 1>>, <<1, 0, 0, 0>>>>, cols |-> 4]}
    \cup {[ndim |-> n, data |-> << >>, cols |-> 0] : n \in {0, 3}}

\* arguments of SquareMEA(...); 0 is an omitted argument, except that dim is
\* always passed when width is not (the default dim gives 100 electrodes)
DimArgs == 1..MaxDim
PitchArgs == 0..MaxPitch
WidthArgs == {0, SomeWidth}
XPlaneArgs == 0..1

-----------------------------------------------------------------------------
(* Array: state machine over one MEA / SquareMEA object *)

InitArray ==
    /\ el = Electrode(<<0, 0, 0>>, Falsy, Falsy, Falsy)
    /\ mea = NoMEA
    /\ neuron = NoNeuron
    /\ call = NoCall
    /\ ret = ReturnedNone

Constructed == mea.cls # "none"
IsSquare == mea.cls = "SquareMEA"

\* a mutator or constructor call with outcome o
Apply(c, o) ==
    /\ call' = c
    /\ mea' = o.mea
    /\ ret' = o.ret
    /\ UNCHANGED <<el, neuron>>

\* a call that only reads the object
Query(c, r) ==
    /\ call' = c
    /\ ret' = r
    /\ UNCHANGED <<el, mea, neuron>>

NewMEA ==
    /\ ~Constructed
    /\ \E a \in MEAArgs :
        Apply([op |-> "MEA", electrodes |-> a], MEA_init("MEA", a))

NewSquareMEA ==
    /\ ~Constructed
    /\ \E d \in DimArgs \cup {0}, p \in PitchArgs, w \in WidthArgs, x \in XPlaneArgs :
        /\ (w = 0 => d # 0)
        /\ Apply([op |-> "SquareMEA", dim |-> d, pitch |-> p, width |-> w, x_plane |-> x],
              SquareMEA_init(d, p, w, x))

SetElectrodes ==
    /\ Constructed
    /\ \E a \in SetElectrodesArgs :
        Apply([op |-> "set_electrodes", electrodes |-> a], set_electrodes(mea, a))

SetCurrents ==
    /\ Constructed
    /\ \E v \in CurrentVectors(mea.number_electrode) :
        Apply([op |-> "set_currents", currents_array |-> v], set_currents(mea, v))

SetRandomCurrents ==
    /\ Constructed
    /\ \E amp \in AmpVals, draws \in RandomDraws(mea.number_electrode) :
        Apply([op |-> "set_random_currents", amp |-> amp, draws |-> draws],
              set_random_currents(mea, amp, draws))

ResetCurrents ==
    /\ Constructed
    /\ Apply([op |-> "reset_currents"], reset_currents(mea))

GetCurrents ==
    /\ Constructed
    /\ Query([op |-> "get_currents"], get_currents(mea))

GetElectrodePositions ==
    /\ Constructed
    /\ Query([op |-> "get_electrode_positions"], get_electrode_positions(mea))

ComputeField ==
    /\ Constructed
    /\ \E pts \in FieldArgs :
        Query([op |-> "compute_field", points |-> pts], compute_field(mea, pts))

GetItem ==
    /\ IsSquare
    /\ \E index \in 0..(mea.dim + 1) :
        Query([op |-> "getitem", index |-> index], getitem(mea, index))

GetElectrodesNumber ==
    /\ IsSquare
    /\ Query([op |-> "get_electrodes_number"], get_electrodes_number(mea))

GetCurrentMatrix ==
    /\ IsSquare
    /\ Query([op |-> "get_current_matrix"], get_current_matrix(mea))

GetElectrodeMatrix ==
    /\ IsSquare
    /\ Query([op |-> "get_electrode_matrix"], get_electrode_matrix(mea))

SetCurrentMatrix ==
    /\ IsSquare
    /\ \E g \in CurrentGrids(mea.dim) :
        Apply([op |-> "set_current_matrix", currents |-> g], set_current_matrix(mea, g))

\* a plain MEA
NextArray ==
    \/ NewMEA
    \/ SetElectrodes
    \/ SetCurrents
    \/ SetRandomCurrents
    \/ ResetCurrents
    \/ GetCurrents
    \/ GetElectrodePositions
    \/ ComputeField

SpecArray == InitArray /\ [][NextArray]_vars

\* a SquareMEA
NextSquare ==
    \/ NewSquareMEA
    \/ SetElectrodes
    \/ SetCurrents
    \/ SetRandomCurrents
    \/ ResetCurrents
    \/ GetCurrents
    \/ GetItem
    \/ GetElectrodesNumber
    \/ GetCurrentMatrix
    \/ GetElectrodeMatrix
    \/ SetCurrentMatrix

SpecSquare == InitArray /\ [][NextSquare]_vars

-----------------------------------------------------------------------------
(* GeometricNeuron: state machine over one GeometricNeuron object *)

LengthArgs == 0..MaxLength
PointsArgs == 0..MaxPoints

InitNeuron ==
    /\ el = Electrode(<<0, 0, 0>>, Falsy, Falsy, Falsy)
    /\ mea = NoMEA
    /\ neuron = NoNeuron
    /\ call = NoCall
    /\ ret = ReturnedNone

NewGeometricNeuron ==
    /\ neuron.cls = "none"
    /\ \E s \in Points3, d \in Points3, l \in LengthArgs, n \in PointsArgs :
        /\ neuron' = GeometricNeuron(s, d, l, n)
        /\ call' = [op |-> "GeometricNeuron", soma_pos |-> s, align_dir |-> d,
                    length |-> l, discrete_points |-> n]
        /\ ret' = ReturnedNone
    /\ UNCHANGED <<el, mea>>

GetAxonPoints ==
    /\ neuron.cls # "none"
    /\ call' = [op |-> "get_axon_points"]
    /\ ret' = get_axon_points(neuron)
    /\ UNCHANGED <<el, mea, neuron>>

GetAxonEnd ==
    /\ neuron.cls # "none"
    /\ call' = [op |-> "get_axon_end"]
    /\ ret' = get_axon_end(neuron)
    /\ UNCHANGED <<el, mea, neuron>>

NextNeuron ==
    \/ NewGeometricNeuron
    \/ GetAxonPoints
    \/ GetAxonEnd

SpecNeuron == InitNeuron /\ [][NextNeuron]_vars

-----------------------------------------------------------------------------
(* get_elcoords: the function applied to inputs drawn from bounded sets *)

\* electrode names, by the tags they contain: 'Neuronexus-32',
\* 'Neuronexus-32-cut-30', 'Neuropixels-v1-128', 'Neuropixels-v2', 'Neuropixels-128'
\* and a name with none of the tags ('SqMEA-10-15um')
ElectrodeNames ==
    {{"neuronexus-32"}, {"neuronexus-32", "cut"}, {"neuropixels", "v1"},
     {"neuropixels", "v2"}, {"neuropixels"}, {}}

DimLists ==
    {<<1, 1>>, <<1, 2>>, <<2, 1>>, <<1, 3>>, <<3, 1>>, <<2, 2>>,
     <<4, 8>>, <<5, 6>>, <<10, 12, 10>>}

PitchLists == {<<2, 3>>}

XOffsetArgs == 0..1

\* 0, 1, ..., count - 1
IdentityList(count) == [i \in 1..count |-> i - 1]

\* 1, 2, ..., count - 1, 0
RotationList(count) == [i \in 1..count |-> i % count]

\* every list of at most MaxSortLen entries in -1..MaxSortLen
ShortSortLists == SeqsUpTo((0 - 1)..MaxSortLen, MaxSortLen)

\* the sortlists tried on count generated positions: None, the short lists,
\* and two permutations of 0..count-1
SortLists(count) ==
    {[is_none |-> TRUE, items |-> << >>]}
    \cup {[is_none |-> FALSE, items |-> s] :
             s \in ShortSortLists \cup {IdentityList(count), RotationList(count)}}

\* the number of positions el_pos generates (0 when it raises)
GeneratedCount(x, d, p, name) ==
    LET generated == el_pos(x, d, p, name)
    IN  IF generated.exc = "" THEN Len(generated.val) ELSE 0

\* a call made whose outcome is not there yet
Pending == Returned("pending", 0)

InitElcoords ==
    /\ el = Electrode(<<0, 0, 0>>, Falsy, Falsy, Falsy)
    /\ mea = NoMEA
    /\ neuron = NoNeuron
    /\ \E x \in XOffsetArgs, d \in DimLists, p \in PitchLists, name \in ElectrodeNames :
           \E s \in SortLists(GeneratedCount(x, d, p, name)) :
               call = [op |-> "get_elcoords", xoffset |-> x, dim |-> d, pitch |-> p,
                       electrode_name |-> name, sortlist |-> s]
    /\ ret = Pending

GetElcoords ==
    /\ ret = Pending
    /\ ret' = get_elcoords(call.xoffset, call.dim, call.pitch, call.electrode_name,
                           call.sortlist)
    /\ UNCHANGED <<el, mea, neuron, call>>

NextElcoords == GetElcoords

SpecElcoords == InitElcoords /\ [][NextElcoords]_vars

-----------------------------------------------------------------------------
(* Properties *)

Currents(m) == [i \in 1..Len(m.electrodes) |-> m.electrodes[i].current]

\* the sum of field_contribution(point) over every electrode the array holds
BruteForceField(m, point) ==
    FieldSum([i \in 1..Len(m.electrodes) |-> field_contribution(m.electrodes[i], point).val],
             1, Len(m.electrodes))

\* C1: set_currents(values) on an array holding a list of count electrodes
\* succeeds exactly when len(values) = count, and then electrode i's current is
\* values[i] for every i; for every other length the call fails with an error
\* and assigns nothing.
C1_SetCurrentsChecksLength ==
    [][(call'.op = "set_currents" /\ mea.electrodes_type = "list") =>
         IF Len(call'.currents_array) = mea.number_electrode
         THEN /\ ret'.exc = ""
              /\ Len(mea'.electrodes) = mea.number_electrode
              /\ \A i \in 1..mea.number_electrode :
                     mea'.electrodes[i].current = call'.currents_array[i]
         ELSE /\ ret'.exc # ""
              /\ mea' = mea]_vars

\* C2: a mutator that does not fully apply its input (it raises, or
\* set_currents on a list of electrodes gets fewer entries than count, or
\* set_current_matrix gets a grid that is not dim x dim) leaves the current of
\* every electrode as it was.
C2_MutatorsAllOrNothing ==
    [][(\/ /\ call'.op = "set_currents"
           /\ mea.electrodes_type = "list"
           /\ (ret'.exc # "" \/ Len(call'.currents_array) < mea.number_electrode)
        \/ /\ call'.op = "set_current_matrix"
           /\ (\/ ret'.exc # ""
               \/ call'.currents.rows # mea.dim
               \/ call'.currents.cols # mea.dim))
       => Currents(mea') = Currents(mea)]_vars

\* C3: in every state of a square array, set_current_matrix(M) with a dim x dim
\* matrix M followed by current_matrix() returns M.
C3_MatrixRoundTrip ==
    (/\ IsSquare
     /\ call.op = "set_current_matrix"
     /\ call.currents.rows = mea.dim
     /\ call.currents.cols = mea.dim)
    => /\ ret.exc = ""
       /\ get_current_matrix(mea) = Returned("matrix", call.currents.data)

\* C3 restricted to the arrays whose count is still dim * dim
C3_MatrixRoundTripWhenCountIsDimSquared ==
    (/\ IsSquare
     /\ mea.number_electrode = mea.dim * mea.dim
     /\ call.op = "set_current_matrix"
     /\ call.currents.rows = mea.dim
     /\ call.currents.cols = mea.dim)
    => /\ ret.exc = ""
       /\ get_current_matrix(mea) = Returned("matrix", call.currents.data)

\* C4: compute_field on a batch of N 3D points returns N values in input order,
\* the k-th the sum over all electrodes of field_contribution(points[k]); on a
\* single 3D point it returns that sum for the point.
C4_Superposition ==
    /\ (call.op = "compute_field" /\ call.points.ndim = 1 /\ Len(call.points.data) = 3)
       => /\ ret.exc = ""
          /\ ret.kind = "scalar"
          /\ ret.val = BruteForceField(mea, call.points.data)
    /\ (call.op = "compute_field" /\ call.points.ndim = 2 /\ call.points.cols = 3)
       => /\ ret.exc = ""
          /\ ret.kind = "vector"
          /\ Len(ret.val) = Len(call.points.data)
          /\ \A k \in 1..Len(call.points.data) :
                 ret.val[k] = BruteForceField(mea, call.points.data[k])

\* C4 restricted to the arrays that hold a list of electrodes
C4_SuperpositionOverLists ==
    (Constructed /\ mea.electrodes_type = "list") => C4_Superposition

\* C5: field_contribution at a point whose three coordinates equal the
\* electrode's position returns max_field, as a normal return value, whatever
\* current and sigma are; at any other point it returns the closed form.
\* max_field is 1000 after construction and is changed by set_max_field only,
\* to the value passed.
C5_CoincidentPointGivesMaxField ==
    /\ [](call.op = "none" => el.max_field = DefaultMaxField)
    /\ [](call.op = "Electrode.field_contribution" =>
            /\ ret.exc = ""
            /\ ret.kind = "scalar"
            /\ ret.val = IF /\ call.point[1] = el.position[1]
                            /\ call.point[2] = el.position[2]
                            /\ call.point[3] = el.position[3]
                         THEN FieldConst(el.max_field)
                         ELSE FieldSource(el.current, el.sigma,
                                          NormSq(call.point, el.position)))
    /\ [][el'.max_field = IF call'.op = "Electrode.set_max_field"
                          THEN call'.max_field ELSE el.max_field]_vars

C5_Witness ==
    /\ call.op = "Electrode.field_contribution"
    /\ call.point = el.position
    /\ ret = Returned("scalar", FieldConst(el.max_field))
    /\ el.max_field # DefaultMaxField
    /\ el.current # 0
    /\ el.sigma # DefaultSigma

\* C6: compute_field with a single point that does not have exactly 3
\* components, or with a batch whose points do not, fails with an error
\* instead of returning.
C6_BadPointsFail ==
    (/\ call.op = "compute_field"
     /\ \/ (call.points.ndim = 1 /\ Len(call.points.data) # 3)
        \/ (call.points.ndim = 2 /\ call.points.cols # 3))
    => ret.exc # ""

\* C7: MEA(electrodes) with an argument that is neither an Electrode nor a
\* sequence of Electrode fails and creates no object; with a list of Electrode
\* the object stores the list and count is its length.
C7_ConstructionValidates ==
    call.op = "MEA" =>
        CASE call.electrodes.type = "other" ->
                 ret.exc # "" /\ ~Constructed
          [] call.electrodes.type = "list" ->
                 /\ ret.exc = ""
                 /\ Constructed
                 /\ mea.electrodes = call.electrodes.items
                 /\ mea.number_electrode = Len(call.electrodes.items)
          [] OTHER -> TRUE

\* C8: in every state of a constructed array count is the number of electrodes
\* stored; in a square array count is also dim * dim, which is what
\* get_electrodes_number reports.
C8_CountIsNumberOfElectrodes ==
    Constructed =>
        /\ mea.number_electrode = Len(mea.electrodes)
        /\ IsSquare =>
              /\ mea.number_electrode = mea.dim * mea.dim
              /\ get_electrodes_number(mea) = Returned("int", mea.number_electrode)

\* C8 for the state a constructor leaves
C8_CountAfterConstruction ==
    (call.op \in {"MEA", "SquareMEA"} /\ Constructed) => C8_CountIsNumberOfElectrodes

\* C9: in a square array, for all row, col in 0..dim-1, current_matrix()[row][col]
\* is currents()[dim*col + row], electrode_matrix()[row][col] is the electrode at
\* flat index dim*col + row, indexing with row gives row `row` of
\* electrode_matrix(), and (row, col) -> dim*col + row is a bijection onto
\* 0..dim*dim-1.
C9_GridMapping ==
    IsSquare =>
        LET dim == mea.dim
            cm == get_current_matrix(mea)
            cur == get_currents(mea)
            em == get_electrode_matrix(mea)
            cells == (0..(dim - 1)) \X (0..(dim - 1))
        IN  /\ cm.exc = "" /\ cur.exc = "" /\ em.exc = ""
            /\ \A rc \in cells :
                   /\ cm.val[rc[1] + 1][rc[2] + 1] = cur.val[dim * rc[2] + rc[1] + 1]
                   /\ em.val[rc[1] + 1][rc[2] + 1] = mea.electrodes[dim * rc[2] + rc[1] + 1]
                   /\ getitem(mea, rc[1]) = Returned("electrode_row", em.val[rc[1] + 1])
            /\ {dim * rc[2] + rc[1] : rc \in cells} = 0..(dim * dim - 1)
            /\ \A a, b \in cells :
                   dim * a[2] + a[1] = dim * b[2] + b[1] => a = b

\* C9 restricted to the arrays whose count is still dim * dim
C9_GridMappingWhenCountIsDimSquared ==
    (IsSquare /\ mea.number_electrode = mea.dim * mea.dim) => C9_GridMapping

\* the values a coordinate takes over the electrodes (k = 2: y, k = 3: z)
CoordSet(m, k) == {m.electrodes[i].position[k] : i \in 1..Len(m.electrodes)}

\* S has dim values spaced by pitch, running from -dim/2*pitch + pitch/2 to
\* dim/2*pitch - pitch/2 (compared doubled, so that pitch/2 is exact), is
\* symmetric about 0 and does not contain 0
CenteredEven(S, dim, pitch) ==
    /\ Cardinality(S) = dim
    /\ \A v \in S : 2 * v >= pitch - dim * pitch /\ 2 * v <= dim * pitch - pitch
    /\ \E v \in S : 2 * v = pitch - dim * pitch
    /\ \E v \in S : 2 * v = dim * pitch - pitch
    /\ \A v \in S : 2 * v < dim * pitch - pitch => v + pitch \in S
    /\ \A v \in S : (0 - v) \in S
    /\ 0 \notin S

\* C10: for every even dim >= 2 and positive pitch the in-plane coordinates of
\* the square layout are dim values spaced by pitch from -dim/2*pitch + pitch/2 to
\* dim/2*pitch - pitch/2, symmetric about 0 and without 0, and every electrode
\* has x = x_plane.
C10_EvenDimCentered ==
    (/\ call.op = "SquareMEA"
     /\ ret.exc = ""
     /\ mea.dim >= 2
     /\ mea.dim % 2 = 0)
    => /\ CenteredEven(CoordSet(mea, 2), mea.dim, mea.pitch)
       /\ CenteredEven(CoordSet(mea, 3), mea.dim, mea.pitch)
       /\ CoordSet(mea, 1) = {mea.x_plane}

\* C10 restricted to even pitch
C10_EvenDimCenteredWhenPitchIsEven ==
    (mea.cls = "SquareMEA" /\ mea.pitch % 2 = 0) => C10_EvenDimCentered

\* the positions the get_elcoords call generated, before any sorting
CallGenerated == el_pos(call.xoffset, call.dim, call.pitch, call.electrode_name)

\* items is a permutation of 0..count-1
IsPermutation(items, count) ==
    /\ Len(items) = count
    /\ \A v \in 0..(count - 1) : \E i \in 1..count : items[i] = v

\* how often each item occurs in seq
SeqBag(seq) ==
    [v \in {seq[i] : i \in DOMAIN seq} |-> Cardinality({i \in DOMAIN seq : seq[i] = v})]

\* C11: with a sortlist s that is a permutation of 0..count-1, get_elcoords
\* returns R with R[s[i]] the i-th generated position for every i, a
\* rearrangement of the generated positions (same multiset, same length); with
\* no sortlist it returns the generated order unchanged.
C11_SortPermutationRearranges ==
    (call.op = "get_elcoords" /\ ret # Pending /\ CallGenerated.exc = "") =>
        LET G == CallGenerated.val
            s == call.sortlist.items
        IN  /\ (~call.sortlist.is_none /\ IsPermutation(s, Len(G))) =>
                   /\ ret.exc = ""
                   /\ Len(ret.val) = Len(G)
                   /\ \A i \in 1..Len(G) : ret.val[s[i] + 1] = G[i]
                   /\ SeqBag(ret.val) = SeqBag(G)
            /\ call.sortlist.is_none => (ret.exc = "" /\ ret.val = G)

\* a call with the permutation 1, 2, 0 of three distinct positions has returned
C11_Witness ==
    /\ call.op = "get_elcoords"
    /\ ret # Pending
    /\ ~call.sortlist.is_none
    /\ call.sortlist.items = <<1, 2, 0>>
    /\ ret.exc = ""
    /\ Len(ret.val) = 3
    /\ ret.val # CallGenerated.val
    /\ Cardinality({ret.val[i] : i \in 1..3}) = 3

\* C12: with a sortlist that is not a permutation of 0..count-1 (wrong length,
\* a repeated index, an index outside 0..count-1) get_elcoords fails and
\* returns no list; it never returns a list in which a generated position is
\* missing or appears twice.
C12_InvalidPermutationFails ==
    (call.op = "get_elcoords" /\ ret # Pending /\ CallGenerated.exc = "" /\ ~call.sortlist.is_none) =>
        LET G == CallGenerated.val
        IN  /\ ~IsPermutation(call.sortlist.items, Len(G)) => ret.exc # ""
            /\ ret.exc = "" => SeqBag(ret.val) = SeqBag(G)

\* how many of the positions R lie in the columns y = -pitch[0], 0, +pitch[0]
ColumnSizes(R, pitch) ==
    <<Cardinality({i \in DOMAIN R : R[i][2] = 0 - 4 * pitch[1]}),
      Cardinality({i \in DOMAIN R : R[i][2] = 0}),
      Cardinality({i \in DOMAIN R : R[i][2] = 4 * pitch[1]})>>

\* get_elcoords was called, and has ended, for a name of the neuronexus-32 family
CallIsNeuronexus ==
    /\ call.op = "get_elcoords"
    /\ ret # Pending
    /\ NameHas(call.electrode_name, "neuronexus-32")

\* C13 as stated: for the neuronexus-32 family with dim = [10, 12, 10]
\* get_elcoords returns exactly 32 positions (column sizes 10, 12, 10; 10, 10, 10
\* for the '-cut' variant), and whenever the product of dim does not match the
\* family's total site count it fails and returns nothing.
C13_Neuronexus32WithDim101210 ==
    CallIsNeuronexus =>
        LET cut == NameHas(call.electrode_name, "cut")
            total == IF cut THEN 30 ELSE 32
        IN  /\ (call.dim = <<10, 12, 10>> /\ call.sortlist.is_none) =>
                   /\ ret.exc = ""
                   /\ ~cut => Len(ret.val) = 32
                   /\ ColumnSizes(ret.val, call.pitch)
                          = IF cut THEN <<10, 10, 10>> ELSE <<10, 12, 10>>
            /\ SeqProd(call.dim) # total => ret.exc # ""

\* C13 amended: for the neuronexus-32 family get_elcoords returns exactly 32
\* positions (column sizes 10, 12, 10), 30 (10, 10, 10) for the '-cut' variant,
\* when the product of dim is that count (dim = [4, 8]; [5, 6] for '-cut'); and
\* whenever the product of dim does not match the family's total site count,
\* as with dim = [10, 12, 10], it fails and returns nothing.
C13_Neuronexus32WhenProductMatches ==
    CallIsNeuronexus =>
        LET cut == NameHas(call.electrode_name, "cut")
            total == IF cut THEN 30 ELSE 32
        IN  /\ (SeqProd(call.dim) = total /\ call.sortlist.is_none) =>
                   /\ ret.exc = ""
                   /\ Len(ret.val) = total
                   /\ ColumnSizes(ret.val, call.pitch)
                          = IF cut THEN <<10, 10, 10>> ELSE <<10, 12, 10>>
            /\ (SeqProd(call.dim) = total /\ ret.exc = "") => Len(ret.val) = total
            /\ SeqProd(call.dim) # total => ret = Raised("ValueError")
            /\ call.dim = <<10, 12, 10>> => ret = Raised("ValueError")

\* neuronexus-32 with dim = [4, 8] and no sortlist has returned 32 positions
C13_Witness ==
    /\ CallIsNeuronexus
    /\ ~NameHas(call.electrode_name, "cut")
    /\ call.dim = <<4, 8>>
    /\ call.sortlist.is_none
    /\ ret.exc = ""
    /\ Len(ret.val) = 32

\* C14: constructing a GeometricNeuron with the direction [0, 0, 0] fails and
\* yields no neuron object (none with a missing align_dir, length or points);
\* for every non-zero direction construction succeeds and align_dir is the
\* supplied direction divided by its norm.
C14_ZeroDirectionFails ==
    call.op = "GeometricNeuron" =>
        IF call.align_dir = <<0, 0, 0>>
        THEN /\ ret.exc # ""
             /\ neuron.cls = "none"
        ELSE /\ ret.exc = ""
             /\ neuron.cls = "GeometricNeuron"
             /\ neuron.has_align_dir /\ neuron.has_length /\ neuron.has_points
             /\ neuron.align_dir.vec = call.align_dir
             /\ neuron.align_dir.normsq =
                    call.align_dir[1] * call.align_dir[1]
                    + call.align_dir[2] * call.align_dir[2]
                    + call.align_dir[3] * call.align_dir[3]

\* C14 for the non-zero directions alone
C14_NonZeroDirectionNormalized ==
    (call.op = "GeometricNeuron" /\ call.align_dir # <<0, 0, 0>>) => C14_ZeroDirectionFails

\* the fraction b - a
FracSub(b, a) == Frac(b[1] * a[2] - a[1] * b[2], a[2] * b[2])

\* what get_axon_points has returned for the neuron: exactly points points on
\* soma_pos + st * align_dir, evenly spaced, the first at soma_pos, the last at
\* get_axon_end() = soma_pos + length * align_dir
AxonPointsSpanTheAxon ==
    /\ ret.exc = ""
    /\ Len(ret.val) = neuron.points
    /\ \A k \in 1..Len(ret.val) :
           ret.val[k].base = neuron.soma_pos /\ ret.val[k].dir = neuron.align_dir
    /\ ret.val[1].st = <<0, 1>>
    /\ get_axon_end(neuron).exc = ""
    /\ ret.val[Len(ret.val)] = get_axon_end(neuron).val
    /\ get_axon_end(neuron).val.st = <<neuron.length, 1>>
    /\ \A k \in 1..(Len(ret.val) - 2) :
           FracSub(ret.val[k + 1].st, ret.val[k].st)
               = FracSub(ret.val[k + 2].st, ret.val[k + 1].st)
    /\ (neuron.length = 10 /\ neuron.points = 3) =>
           <<ret.val[1].st, ret.val[2].st, ret.val[3].st>> = <<<<0, 1>>, <<5, 1>>, <<10, 1>>>>

\* C15: for every GeometricNeuron and every sample count >= 1, get_axon_points
\* returns exactly that many points, evenly spaced, from soma_pos to
\* get_axon_end() = soma_pos + length * align_dir (length 10 with 3 points gives
\* soma_pos, soma_pos + 5 * dir, soma_pos + 10 * dir), and the call does not
\* change the neuron.
C15_AxonPoints ==
    /\ [](call.op = "get_axon_points" => AxonPointsSpanTheAxon)
    /\ [][call'.op = "get_axon_points" => neuron' = neuron]_vars

\* C15 for the neurons built with a non-zero direction and two or more points
C15_AxonPointsFromTwoSamples ==
    (call.op = "get_axon_points" /\ neuron.has_align_dir /\ neuron.points >= 2)
        => AxonPointsSpanTheAxon

\* the values of the set S of integers in ascending order
Ascending(S) ==
    [i \in 1..Cardinality(S) |-> CHOOSE v \in S : Cardinality({u \in S : u < v}) = i - 1]

\* C16: in the square layout as constructed, with Y the ascending in-plane
\* coordinate sequence, the electrode at flat index dim*col + row is at
\* (x_plane, Y[col], Y[dim-1-row]) for all row, col in 0..dim-1: within a grid
\* column z strictly decreases as row increases, within a grid row y strictly
\* increases as col increases, and every electrode has x = x_plane.
C16_ColumnMajorLayout ==
    (call.op = "SquareMEA" /\ ret.exc = "") =>
        LET dim == mea.dim
            Y == Ascending(CoordSet(mea, 2))
            cells == (0..(dim - 1)) \X (0..(dim - 1))
            At(row, col) == mea.electrodes[dim * col + row + 1].position
            em == get_electrode_matrix(mea)
        IN  /\ Len(Y) = dim
            /\ Len(mea.electrodes) = dim * dim
            /\ mea.x_plane = call.x_plane
            /\ em.exc = ""
            /\ \A rc \in cells :
                   LET row == rc[1]
                       col == rc[2]
                   IN  /\ At(row, col) = <<mea.x_plane, Y[col + 1], Y[dim - row]>>
                       /\ em.val[row + 1][col + 1].position = At(row, col)
                       /\ row < dim - 1 => At(row + 1, col)[3] < At(row, col)[3]
                       /\ col < dim - 1 => At(row, col + 1)[2] > At(row, col)[2]
                       /\ At(row, col)[1] = mea.x_plane

\* a square array of dim 3 in the plane x = 1 has just been constructed
C16_Witness ==
    /\ call.op = "SquareMEA"
    /\ ret.exc = ""
    /\ mea.cls = "SquareMEA"
    /\ mea.dim = 3
    /\ mea.x_plane = 1
    /\ mea.number_electrode = 9

=============
